---- MODULE Spec2Model ----
(***************************************************************************)
(* A model of gluon's kind checker (check/src/kindcheck.rs) and renamer    *)
(* (check/src/rename.rs).                                                  *)
(*                                                                         *)
(* KindSpec drives one KindCheck object through its operations; every     *)
(* operation is one atomic action computed by the recursive operators      *)
(* below, which thread the object's state (variables, locals, subs).       *)
(* UnifySpec drives the substitution store through unifications alone.     *)
(* RenameSpec runs one rename pass over an expression, a step of the       *)
(* traversal at a time.  EquivSpec applies equivalent to a pair of types.  *)
(***************************************************************************)
EXTENDS Integers, Sequences, FiniteSets, TLC

VARIABLES
    \* the KindCheck object, the type expression checked last, the call made
    \* last on the object with its result, and the number of checks made
    variables, locals, subs, typ, result, call, ncalls,
    \* the renamer: the expression it is given, the work its traversal has
    \* left (the visits and scope exits still to come, first first), its two
    \* scoped maps, the errors pushed, the names written into the tree, the
    \* step made last and what the pass returned
    expr, agenda, stack, stack_types, errors, renamed, step, outcome

kvars == <<variables, locals, subs, typ, result, call, ncalls>>
rvars == <<expr, agenda, stack, stack_types, errors, renamed, step, outcome>>
vars == <<kvars, rvars>>

----------------------------------------------------------------------------
(* Bounds of the model. *)

MaxVars == 4       \* kind variables the substitution store may hold
MaxLocals == 2     \* entries the local-binding stack may hold
MaxCalls == 1      \* checks made on one KindCheck object
MaxFinds == 2      \* calls of one KindCheck object, when the last is a find
MaxUnifyVars == 2  \* kind variables of the store in UnifySpec
MaxNest == 2       \* lets nested around the expression a pass is given

----------------------------------------------------------------------------
(* Kinds (base::kind::Kind). *)

None == [tag |-> "None"]
Some(v) == [tag |-> "Some", v |-> v]

KType == [tag |-> "Type"]
KRow == [tag |-> "Row"]
KHole == [tag |-> "Hole"]
KVariable(id) == [tag |-> "Variable", id |-> id]
KFunction(a, r) == [tag |-> "Function", arg |-> a, ret |-> r]

\* The value update_kind cannot produce: its recursion has no end.
KDiverge == [tag |-> "Diverge"]

\* evaluates e once and hands its value to F (let x = e; F(x))
With(e, F(_)) == CHOOSE y \in {F(x) : x \in {e}} : TRUE

\* merge::merge(l, l_new, r, r_new, f)
merge(l, lnew, r, rnew) ==
    IF lnew = None /\ rnew = None THEN None
    ELSE Some(KFunction(IF lnew = None THEN l ELSE lnew.v,
                        IF rnew = None THEN r ELSE rnew.v))

RECURSIVE HasVariable(_)
HasVariable(k) ==
    CASE k.tag = "Variable" -> TRUE
      [] k.tag = "Function" -> HasVariable(k.arg) \/ HasVariable(k.ret)
      [] OTHER -> FALSE

----------------------------------------------------------------------------
(* The substitution store: slot id + 1 of the sequence holds the value of  *)
(* variable id, or Unbound.                                                *)

Unbound == [tag |-> "Unbound"]

\* Substitution::new_var
new_var(s) == [subs |-> Append(s, Unbound), kind |-> KVariable(Len(s))]

IsBound(s, id) == id + 1 \in DOMAIN s /\ s[id + 1] # Unbound

\* Substitution::real : follow variable-to-variable bindings
RECURSIVE real(_, _)
real(s, k) ==
    IF k.tag = "Variable" /\ IsBound(s, k.id) THEN real(s, s[k.id + 1]) ELSE k

\* Substitution::find_type_for_var
find_type_for_var(s, id) ==
    IF IsBound(s, id) THEN Some(real(s, s[id + 1])) ELSE None

\* Substitution::union / bind : assign a presently unbound variable
bind(s, id, value) == [s EXCEPT ![id + 1] = value]

----------------------------------------------------------------------------
(* The unifier over kinds.  A match returns the store, the merged kind (or *)
(* None when nothing changed) and the errors it reported.  The store is    *)
(* not kept free of cycles (no occurs check), so a match carries the calls *)
(* open on its path: meeting one of them again, with the same store, is a  *)
(* recursion that does not return ("diverged").                            *)

TypeMismatch(l, r) == [tag |-> "TypeMismatch", expected |-> l, actual |-> r]
UndefinedType(id) == [tag |-> "UndefinedType", id |-> id]
\* not an error value of the code: the call did not return
Diverged == [tag |-> "Diverged"]

Matched(s, out, errs) ==
    [subs |-> s, out |-> out, errors |-> errs, diverged |-> FALSE]
NoReturn(s) == [subs |-> s, out |-> None, errors |-> <<>>, diverged |-> TRUE]

RECURSIVE unify_try_match(_, _, _, _)

\* Unifiable for ArcKind :: zip_match
zip_match(s, l, r, open) ==
    IF l.tag = "Function" /\ r.tag = "Function"
    THEN IF <<s, l, r>> \in open THEN NoReturn(s)
         ELSE With(unify_try_match(s, l.arg, r.arg, open \cup {<<s, l, r>>}),
              LAMBDA a :
              IF a.diverged THEN a
              ELSE With(unify_try_match(a.subs, l.ret, r.ret,
                                        open \cup {<<s, l, r>>}),
                   LAMBDA b :
                   IF b.diverged THEN b
                   ELSE Matched(b.subs, merge(l.arg, a.out, l.ret, b.out),
                                a.errors \o b.errors)))
    ELSE IF l = r
         THEN Matched(s, None, <<>>)
         ELSE Matched(s, None, <<TypeMismatch(l, r)>>)

\* Unifier::try_match of the kind unifier: resolve both sides, bind an
\* unbound variable to the other side, otherwise compare the shapes.
unify_try_match(s, l0, r0, open) ==
    With(real(s, l0), LAMBDA l :
    With(real(s, r0), LAMBDA r :
        IF l.tag = "Variable" /\ r.tag = "Variable" /\ l.id = r.id
        THEN Matched(s, None, <<>>)
        ELSE IF r.tag = "Variable"
        THEN Matched(bind(s, r.id, l), None, <<>>)
        ELSE IF l.tag = "Variable"
        THEN Matched(bind(s, l.id, r), Some(r), <<>>)
        ELSE zip_match(s, l, r, open)))

\* unify::unify
unify_unify(s, l, r) ==
    With(unify_try_match(s, l, r, {}), LAMBDA m :
        [subs |-> m.subs, diverged |-> m.diverged,
         ok |-> ~m.diverged /\ m.errors = <<>>,
         kind |-> IF m.out = None THEN l ELSE m.out.v])

----------------------------------------------------------------------------
(* update_kind: resolve every variable of a kind through the store.  The   *)
(* recursion carries the variables whose resolution is open on its path;   *)
(* meeting one of them again is a cycle of the store, on which the code's  *)
(* recursion does not return: the kind then holds KDiverge.                *)

RECURSIVE update_kind_at(_, _, _, _)
RECURSIVE walk_move_kind2(_, _, _, _)

\* the closure update_kind hands to walk_move_kind
update_kind_f(s, k, default, open) ==
    IF k.tag = "Variable"
    THEN With(find_type_for_var(s, k.id), LAMBDA found :
             IF found # None
             THEN IF k.id \in open THEN Some(KDiverge)
                  ELSE Some(update_kind_at(s, found.v, default,
                                           open \cup {k.id}))
             ELSE default)
    ELSE None

walk_move_kind2(s, kind, default, open) ==
    With(update_kind_f(s, kind, default, open), LAMBDA new :
    With(IF new = None THEN kind ELSE new.v, LAMBDA k :
    With(IF k.tag = "Function"
         THEN With(walk_move_kind2(s, k.arg, default, open), LAMBDA arg_new :
              With(walk_move_kind2(s, k.ret, default, open), LAMBDA ret_new :
                  merge(k.arg, arg_new, k.ret, ret_new)))
         ELSE None,
         LAMBDA new2 : IF new2 # None THEN new2 ELSE new)))

\* walk_move_kind
update_kind_at(s, kind, default, open) ==
    With(walk_move_kind2(s, kind, default, open), LAMBDA r :
        IF r = None THEN kind ELSE r.v)

update_kind(s, kind, default) == update_kind_at(s, kind, default, {})

RECURSIVE HasDiverge(_)
HasDiverge(k) ==
    CASE k.tag = "Diverge" -> TRUE
      [] k.tag = "Function" -> HasDiverge(k.arg) \/ HasDiverge(k.ret)
      [] OTHER -> FALSE

----------------------------------------------------------------------------
(* Type expressions (AstType).  A Generic, a Skolem, an unbound Variable   *)
(* and every Forall parameter carry a kind field the checker writes.       *)

TBuiltin(b) == [tag |-> "Builtin", b |-> b]
THole == [tag |-> "Hole"]
TVariable(k) == [tag |-> "Variable", kind |-> k]
TGeneric(id) == [tag |-> "Generic", id |-> id, kind |-> KHole]
TSkolem(name) == [tag |-> "Skolem", name |-> name, kind |-> KHole]
Generic(id, k) == [id |-> id, kind |-> k]
TForall(params, body) ==
    [tag |-> "Forall",
     params |-> [i \in DOMAIN params |-> Generic(params[i], KHole)],
     body |-> body]
TApp(ctor, args) == [tag |-> "App", ctor |-> ctor, args |-> args]
\* types::Field : a named field of a row (a constructor of a variant)
Field(name, t) == [name |-> name, typ |-> t]
TVariant(fields) == [tag |-> "Variant", fields |-> fields]
TRecord(row) == [tag |-> "Record", row |-> row]
TExtendRow(fields, rest) == [tag |-> "ExtendRow", fields |-> fields, rest |-> rest]
TEmptyRow == [tag |-> "EmptyRow"]
TIdent(id) == [tag |-> "Ident", id |-> id]
TAlias(name) == [tag |-> "Alias", name |-> name]

\* names whose display string starts with an upper-case letter
UpperNames == {"Foo", "List", "Bar"}
starts_with_uppercase(id) == id \in UpperNames

\* KindCheck::info : the outer environment's find_kind
info_find_kind(id) ==
    CASE id = "Foo" -> Some(KType)
      [] id = "List" -> Some(KFunction(KType, KType))
      [] OTHER -> None

----------------------------------------------------------------------------
(* The KindCheck object, as the record kc = [variables, locals, subs].     *)

\* KindCheck::type_kind, function1_kind, function2_kind, row_kind
type_kind == KType
function1_kind == KFunction(KType, KType)
function2_kind == KFunction(KType, function1_kind)
row_kind == KRow

Local(name, kind) == [name |-> name, kind |-> kind]

Min(S) == CHOOSE x \in S : \A y \in S : x <= y
Max(S) == CHOOSE x \in S : \A y \in S : x >= y

\* self.locals.iter().find(|t| t.0 == *id) : the first entry from the front
find_local(ls, id) ==
    With({i \in DOMAIN ls : ls[i].name = id}, LAMBDA hits :
        IF hits = {} THEN None ELSE Some(ls[Min(hits)].kind))

\* self.variables.iter().find(|var| var.id == *id)
find_variable(vs, id) ==
    With({i \in DOMAIN vs : vs[i].id = id}, LAMBDA hits :
        IF hits = {} THEN None ELSE Some(vs[Min(hits)].kind))

Found(kc, kind) == [kc |-> kc, ok |-> TRUE, kind |-> kind, err |-> None]
Failed(kc, err) == [kc |-> kc, ok |-> FALSE, kind |-> None, err |-> err]

\* a find that does not consult the local-binding stack
find_without_locals(kc, id) ==
    With(find_variable(kc.variables, id), LAMBDA v :
    With(info_find_kind(id), LAMBDA e :
        IF v # None THEN Found(kc, v.v)
        ELSE IF e # None THEN Found(kc, e.v)
        ELSE IF starts_with_uppercase(id) THEN Failed(kc, UndefinedType(id))
        ELSE With(new_var(kc.subs), LAMBDA nv :
                 Found([kc EXCEPT !.subs = nv.subs,
                                  !.locals = Append(@, Local(id, nv.kind))],
                       nv.kind))))

\* KindCheck::find
find(kc, id) ==
    With(find_variable(kc.variables, id), LAMBDA v :
    With(find_local(kc.locals, id), LAMBDA l :
    With(info_find_kind(id), LAMBDA e :
        IF v # None THEN Found(kc, v.v)
        ELSE IF l # None THEN Found(kc, l.v)
        ELSE IF e # None THEN Found(kc, e.v)
        ELSE IF starts_with_uppercase(id) THEN Failed(kc, UndefinedType(id))
        ELSE With(new_var(kc.subs), LAMBDA nv :
                 Found([kc EXCEPT !.subs = nv.subs,
                                  !.locals = Append(@, Local(id, nv.kind))],
                       nv.kind)))))

\* a builtin_kind that takes the array constructor for a two-argument one
builtin_kind_array2(b) ==
    CASE b \in {"String", "Byte", "Char", "Int", "Float"} -> type_kind
      [] b \in {"Array", "Function"} -> function2_kind

\* KindCheck::builtin_kind
builtin_kind(b) ==
    CASE b \in {"String", "Byte", "Char", "Int", "Float"} -> type_kind
      [] b = "Array" -> function1_kind
      [] b = "Function" -> function2_kind

\* the Err arm of KindCheck::unify : both operands are reported resolved
unify_error(kc, expected, actual) ==
    With(update_kind(kc.subs, expected, None), LAMBDA e :
    With(update_kind(kc.subs, actual, None), LAMBDA a :
        IF HasDiverge(e) \/ HasDiverge(a) THEN Failed(kc, Diverged)
        ELSE Failed(kc, TypeMismatch(e, a))))

\* a unify that reports success without keeping the unifier's bindings
unify_forgetful(kc, expected, actual) ==
    With(unify_unify(kc.subs, expected, actual), LAMBDA u :
        IF u.ok THEN Found(kc, u.kind)
        ELSE Failed(kc, TypeMismatch(expected, actual)))

\* KindCheck::unify
unify(kc, expected, actual) ==
    With(unify_unify(kc.subs, expected, actual), LAMBDA u :
        IF u.ok THEN Found([kc EXCEPT !.subs = u.subs], u.kind)
        ELSE IF u.diverged THEN Failed([kc EXCEPT !.subs = u.subs], Diverged)
        ELSE unify_error([kc EXCEPT !.subs = u.subs], expected, actual))

Ok(kc, t, kind) == [kc |-> kc, typ |-> t, ok |-> TRUE, kind |-> kind, err |-> None]
Err(kc, t, err) == [kc |-> kc, typ |-> t, ok |-> FALSE, kind |-> None, err |-> err]

RECURSIVE kindcheck(_, _)
RECURSIVE kindcheck_args(_, _, _, _)
RECURSIVE kindcheck_fields(_, _, _)

\* one turn of the App rule's loop, once the running kind is a function
kindcheck_arg(kc, fkind, args, i) ==
    With(kindcheck(kc, args[i]), LAMBDA a :
    With([args EXCEPT ![i] = a.typ], LAMBDA args1 :
        IF ~a.ok THEN Err(a.kc, args1, a.err)
        ELSE With(unify(a.kc, fkind.arg, a.kind), LAMBDA u2 :
                 IF ~u2.ok THEN Err(u2.kc, args1, u2.err)
                 ELSE kindcheck_args(u2.kc, fkind.ret, args1, i + 1))))

\* the loop of the App rule, from argument i on; kind is the running kind
kindcheck_args(kc, kind, args, i) ==
    IF i > Len(args) THEN Ok(kc, args, kind)
    ELSE With(new_var(kc.subs), LAMBDA v1 :
         With(new_var(v1.subs), LAMBDA v2 :
         With(unify([kc EXCEPT !.subs = v2.subs],
                    KFunction(v1.kind, v2.kind), kind),
              LAMBDA u :
              IF ~u.ok THEN Err(u.kc, args, u.err)
              ELSE IF u.kind.tag # "Function"
              THEN Err(u.kc, args, TypeMismatch(function1_kind, u.kind))
              ELSE kindcheck_arg(u.kc, u.kind, args, i))))

\* the loop of the Variant and ExtendRow rules: every field has kind Type
kindcheck_fields(kc, fields, i) ==
    IF i > Len(fields) THEN Ok(kc, fields, type_kind)
    ELSE With(kindcheck(kc, fields[i].typ), LAMBDA a :
         With([fields EXCEPT ![i].typ = a.typ], LAMBDA fields1 :
             IF ~a.ok THEN Err(a.kc, fields1, a.err)
             ELSE With(unify(a.kc, type_kind, a.kind), LAMBDA u :
                      IF ~u.ok THEN Err(u.kc, fields1, u.err)
                      ELSE kindcheck_fields(u.kc, fields1, i + 1))))

\* the Forall rule: push a fresh variable per parameter, check the body,
\* drain the last params.len() entries of the stack
kindcheck_forall(kc, t) ==
    With(Len(t.params), LAMBDA n :
    With([i \in 1..n |-> Generic(t.params[i].id, KVariable(Len(kc.subs) + i - 1))],
         LAMBDA params1 :
    With(kindcheck([kc EXCEPT
                      !.subs = @ \o [i \in 1..n |-> Unbound],
                      !.locals = @ \o [i \in 1..n |->
                                         Local(params1[i].id, params1[i].kind)]],
                   t.body),
         LAMBDA b :
         With([t EXCEPT !.params = params1, !.body = b.typ], LAMBDA t1 :
             IF ~b.ok THEN Err(b.kc, t1, b.err)
             ELSE Ok([b.kc EXCEPT !.locals = SubSeq(@, 1, Len(@) - n)],
                     t1, b.kind)))))

\* the Skolem, Generic, Ident and Alias rules
kindcheck_name(kc, t, id, stores) ==
    With(find(kc, id), LAMBDA f :
        IF ~f.ok THEN Err(f.kc, t, f.err)
        ELSE IF stores THEN Ok(f.kc, [t EXCEPT !.kind = f.kind], f.kind)
        ELSE Ok(f.kc, t, f.kind))

\* the rule of a row: Record (expects == row) and ExtendRow's rest
kindcheck_row(kc, row, returns) ==
    With(kindcheck(kc, row), LAMBDA r :
        IF ~r.ok THEN r
        ELSE With(unify(r.kc, row_kind, r.kind), LAMBDA u :
                 IF ~u.ok THEN Err(u.kc, r.typ, u.err)
                 ELSE Ok(u.kc, r.typ, returns)))

\* KindCheck::kindcheck
kindcheck(kc, t) ==
    CASE t.tag \in {"Hole", "Opaque", "Variable"} ->
            With(new_var(kc.subs), LAMBDA nv :
                Ok([kc EXCEPT !.subs = nv.subs], t, nv.kind))
      [] t.tag = "Skolem" -> kindcheck_name(kc, t, t.name, TRUE)
      [] t.tag = "Generic" -> kindcheck_name(kc, t, t.id, TRUE)
      [] t.tag = "Builtin" -> Ok(kc, t, builtin_kind(t.b))
      [] t.tag = "Forall" -> kindcheck_forall(kc, t)
      [] t.tag = "App" ->
            With(kindcheck(kc, t.ctor), LAMBDA c :
                IF ~c.ok THEN Err(c.kc, [t EXCEPT !.ctor = c.typ], c.err)
                ELSE With(kindcheck_args(c.kc, c.kind, t.args, 1), LAMBDA a :
                         [a EXCEPT !.typ = [t EXCEPT !.ctor = c.typ,
                                                     !.args = a.typ]]))
      [] t.tag = "Variant" ->
            With(kindcheck_fields(kc, t.fields, 1), LAMBDA fs :
                [fs EXCEPT !.typ = [t EXCEPT !.fields = fs.typ]])
      [] t.tag = "Record" ->
            With(kindcheck_row(kc, t.row, type_kind), LAMBDA r :
                [r EXCEPT !.typ = [t EXCEPT !.row = r.typ]])
      [] t.tag = "ExtendRow" ->
            With(kindcheck_fields(kc, t.fields, 1), LAMBDA fs :
                IF ~fs.ok THEN [fs EXCEPT !.typ = [t EXCEPT !.fields = fs.typ]]
                ELSE With(kindcheck_row(fs.kc, t.rest, row_kind), LAMBDA r :
                         [r EXCEPT !.typ = [t EXCEPT !.fields = fs.typ,
                                                     !.rest = r.typ]]))
      [] t.tag = "EmptyRow" -> Ok(kc, t, row_kind)
      [] t.tag = "Ident" -> kindcheck_name(kc, t, t.id, FALSE)
      [] t.tag = "Alias" -> kindcheck_name(kc, t, t.name, FALSE)

\* KindCheck::finalize_generic
finalize_generic(s, var) == Generic(var.id, update_kind(s, var.kind, Some(type_kind)))

\* KindCheck::finalize_type : the closure on every node of the expression
RECURSIVE finalize_type(_, _)
finalize_type(s, t) ==
    CASE t.tag = "Variable" ->
            [t EXCEPT !.kind = update_kind(s, t.kind, Some(type_kind))]
      [] t.tag = "Generic" ->
            [t EXCEPT !.kind = finalize_generic(s, Generic(t.id, t.kind)).kind]
      [] t.tag = "Forall" ->
            [t EXCEPT !.params = [i \in DOMAIN t.params |->
                                    finalize_generic(s, t.params[i])],
                      !.body = finalize_type(s, t.body)]
      [] t.tag = "App" ->
            [t EXCEPT !.ctor = finalize_type(s, t.ctor),
                      !.args = [i \in DOMAIN t.args |-> finalize_type(s, t.args[i])]]
      [] t.tag = "Variant" ->
            [t EXCEPT !.fields = [i \in DOMAIN t.fields |->
                                    Field(t.fields[i].name,
                                          finalize_type(s, t.fields[i].typ))]]
      [] t.tag = "Record" -> [t EXCEPT !.row = finalize_type(s, t.row)]
      [] t.tag = "ExtendRow" ->
            [t EXCEPT !.fields = [i \in DOMAIN t.fields |->
                                    Field(t.fields[i].name,
                                          finalize_type(s, t.fields[i].typ))],
                      !.rest = finalize_type(s, t.rest)]
      [] OTHER -> t

\* the kind annotations stored on the nodes of a type expression
RECURSIVE KindsOn(_)
KindsOn(t) ==
    CASE t.tag \in {"Variable", "Generic", "Skolem"} -> {t.kind}
      [] t.tag = "Forall" ->
            {t.params[i].kind : i \in DOMAIN t.params} \cup KindsOn(t.body)
      [] t.tag = "App" ->
            KindsOn(t.ctor) \cup UNION {KindsOn(t.args[i]) : i \in DOMAIN t.args}
      [] t.tag = "Variant" -> UNION {KindsOn(t.fields[i].typ) : i \in DOMAIN t.fields}
      [] t.tag = "Record" -> KindsOn(t.row)
      [] t.tag = "ExtendRow" ->
            UNION {KindsOn(t.fields[i].typ) : i \in DOMAIN t.fields} \cup KindsOn(t.rest)
      [] OTHER -> {}

\* KindCheck::kindcheck_expected
kindcheck_expected(kc, t, expected) ==
    With(kindcheck(kc, t), LAMBDA k :
        IF ~k.ok THEN k
        ELSE With(unify(k.kc, expected, k.kind), LAMBDA u :
                 IF ~u.ok THEN Err(u.kc, k.typ, u.err)
                 ELSE With(finalize_type(u.kc.subs, k.typ), LAMBDA t1 :
                          IF \E a \in KindsOn(t1) : HasDiverge(a)
                          THEN Err(u.kc, k.typ, Diverged)
                          ELSE Ok(u.kc, t1, u.kind))))

\* KindCheck::kindcheck_type
kindcheck_type(kc, t) == kindcheck_expected(kc, t, type_kind)

----------------------------------------------------------------------------
(* The renamer's scoped maps (base::scoped_map::ScopedMap): for every key  *)
(* the values bound to it, oldest first, and the keys inserted since each  *)
(* scope marker (None).                                                    *)

\* the surface names of the programs
Symbols == {"x", "y", "f", "g", "A", "B", "T", "M.T"}

\* ScopedMap::new
ScopedMap_new == [map |-> [k \in Symbols |-> <<>>], scopes |-> <<>>]

\* ScopedMap::enter_scope
enter_scope(sm) == [sm EXCEPT !.scopes = Append(@, None)]

\* ScopedMap::insert
insert(sm, k, v) ==
    [map |-> [sm.map EXCEPT ![k] = Append(@, v)],
     scopes |-> Append(sm.scopes, Some(k))]

Front(q) == SubSeq(q, 1, Len(q) - 1)
Last(q) == q[Len(q)]

\* ScopedMap::exit_scope : undo the insertions back to the last marker
RECURSIVE exit_scope(_)
exit_scope(sm) ==
    IF sm.scopes = <<>> THEN sm
    ELSE With(Last(sm.scopes), LAMBDA key :
         IF key = None THEN [sm EXCEPT !.scopes = Front(@)]
         ELSE With([map |-> [sm.map EXCEPT ![key.v] = Front(@)],
                    scopes |-> Front(sm.scopes)],
                   LAMBDA popped : exit_scope(popped)))

\* ScopedMap::get_all
get_all(sm, k) == sm.map[k]

\* the scopes open on a map
Depth(sm) == Cardinality({i \in DOMAIN sm.scopes : sm.scopes[i] = None})

----------------------------------------------------------------------------
(* Types as the renamer reads them.                                        *)

TFunction(a, r) == TApp(TBuiltin("Function"), <<a, r>>)

\* Type::remove_forall
RECURSIVE remove_forall(_)
remove_forall(t) == IF t.tag = "Forall" THEN remove_forall(t.body) ELSE t

IsFunction(t) ==
    t.tag = "App" /\ t.ctor = TBuiltin("Function") /\ Len(t.args) = 2

\* types::arg_iter : the argument types of a function type
RECURSIVE arg_iter(_)
arg_iter(t) ==
    IF IsFunction(t) THEN <<t.args[1]>> \o arg_iter(t.args[2]) ELSE <<>>

\* Alias : a name and the type it stands for
Alias(name, t) == [name |-> name, typ |-> t]

----------------------------------------------------------------------------
(* The equivalence checker.  Its state is the scratch map (pairs of a      *)
(* variable's name and the type it met first), the flag equiv, and         *)
(* diverged: the recursion through the map met a variable it is already    *)
(* following, which the code's recursion does not survive.                 *)

Equivalent == [map |-> {}, equiv |-> TRUE, diverged |-> FALSE]

map_get(map, id) ==
    IF \E p \in map : p[1] = id
    THEN Some((CHOOSE p \in map : p[1] = id)[2])
    ELSE None

\* Unifier::report_error
report_error(st) == [st EXCEPT !.equiv = FALSE]

RECURSIVE try_match_res(_, _, _, _)
RECURSIVE try_match_all(_, _, _, _)

\* unifies the types of two lists position by position
try_match_all(st, ls, rs, i) ==
    IF i > Len(ls) \/ st.diverged THEN st
    ELSE With(try_match_res(st, ls[i], rs[i], {}), LAMBDA st1 :
             try_match_all(st1, ls, rs, i + 1))

FieldTypes(fields) == [i \in DOMAIN fields |-> fields[i].typ]
FieldNames(fields) == [i \in DOMAIN fields |-> fields[i].name]

\* zip_match of types: equal shapes are matched part by part, any other
\* pair is a mismatch, which try_match reports
type_zip_match(st, l, r) ==
    CASE l.tag = "App" /\ r.tag = "App" /\ Len(l.args) = Len(r.args) ->
            try_match_all(st, <<l.ctor>> \o l.args, <<r.ctor>> \o r.args, 1)
      [] l.tag = "Record" /\ r.tag = "Record" ->
            try_match_all(st, <<l.row>>, <<r.row>>, 1)
      [] /\ l.tag = "Variant" /\ r.tag = "Variant"
         /\ FieldNames(l.fields) = FieldNames(r.fields) ->
            try_match_all(st, FieldTypes(l.fields), FieldTypes(r.fields), 1)
      [] /\ l.tag = "ExtendRow" /\ r.tag = "ExtendRow"
         /\ FieldNames(l.fields) = FieldNames(r.fields) ->
            try_match_all(st, FieldTypes(l.fields) \o <<l.rest>>,
                          FieldTypes(r.fields) \o <<r.rest>>, 1)
      [] OTHER -> IF l = r THEN st ELSE report_error(st)

\* the variable of a Generic or Skolem node, as a key of the scratch map
VarKey(t) == IF t.tag = "Generic" THEN t.id ELSE t.name

\* Unifier::try_match_res of the equivalence checker; followed holds the
\* variables whose map entries this call has been reached through
try_match_res(st, l, r, followed) ==
    IF l.tag \in {"Generic", "Skolem"} /\ r.tag = l.tag /\ l = r THEN st
    ELSE IF l.tag \in {"Generic", "Skolem"}
    THEN With(map_get(st.map, VarKey(l)), LAMBDA found :
             IF found = None
             THEN [st EXCEPT !.map = @ \cup {<<VarKey(l), r>>}]
             ELSE IF VarKey(l) \in followed THEN [st EXCEPT !.diverged = TRUE]
             ELSE try_match_res(st, found.v, r, followed \cup {VarKey(l)}))
    ELSE type_zip_match(st, l, r)

\* equivalent
equivalent(actual, inferred) == try_match_res(Equivalent, actual, inferred, {})

----------------------------------------------------------------------------
(* The renamer's environment env = [stack, stack_types] and the operations *)
(* of RenameVisitor on it.                                                 *)

Environment == [stack |-> ScopedMap_new, stack_types |-> ScopedMap_new]

Span(start, end) == [start |-> start, end |-> end]

\* a value of the stack: (unique name, declaration span, declared type)
Binding(new_id, span, t) == [new_id |-> new_id, span |-> span, typ |-> t]

\* a stack_var that keeps the surface name
stack_var_plain(env, id, span, t) ==
    [env |-> [env EXCEPT !.stack = insert(@, id, Binding(id, span, t))],
     new_id |-> id]

\* RenameVisitor::stack_var : format!("{}:{}", name, span.start)
stack_var(env, id, span, t) ==
    With(id \o ":" \o ToString(span.start), LAMBDA new_id :
        [env |-> [env EXCEPT !.stack = insert(@, id, Binding(new_id, span, t))],
         new_id |-> new_id])

\* the loop of stack_type over the constructors of a variant
RECURSIVE stack_constructors(_, _, _, _)
stack_constructors(values, fields, span, i) ==
    IF i > Len(fields) THEN values
    ELSE With(insert(values, fields[i].name,
                     Binding(fields[i].name, span, fields[i].typ)),
              LAMBDA stack1 : stack_constructors(stack1, fields, span, i + 1))

\* RenameVisitor::stack_type
stack_type(env, id, span, alias) ==
    With(remove_forall(alias.typ), LAMBDA aliased :
        [stack |-> IF aliased.tag = "Variant"
                   THEN stack_constructors(env.stack, aliased.fields, span, 1)
                   ELSE env.stack,
         stack_types |-> insert(insert(env.stack_types, alias.name, alias),
                                id, alias)])

\* patterns
PIdent(span, name, t) == [tag |-> "Ident", span |-> span, name |-> name, typ |-> t]
PTuple(span, elems) == [tag |-> "Tuple", span |-> span, elems |-> elems]
PLiteral(span) == [tag |-> "Literal", span |-> span]

\* a name the pass has written into the tree: the site it stands at
Renamed(site, span, name, new_id) ==
    [site |-> site, span |-> span, name |-> name, new_id |-> new_id]

RECURSIVE new_pattern(_, _)
RECURSIVE new_patterns(_, _, _, _)

\* the loops of new_pattern over sub-patterns
new_patterns(env, log, elems, i) ==
    IF i > Len(elems) THEN [env |-> env, log |-> log]
    ELSE With(new_pattern(env, elems[i]), LAMBDA r :
             new_patterns(r.env, log \o r.log, elems, i + 1))

\* RenameVisitor::new_pattern
new_pattern(env, pattern) ==
    CASE pattern.tag = "Ident" ->
            With(stack_var(env, pattern.name, pattern.span, pattern.typ), LAMBDA v :
                [env |-> v.env,
                 log |-> <<Renamed("pattern", pattern.span, pattern.name, Some(v.new_id))>>])
      [] pattern.tag = "Tuple" -> new_patterns(env, <<>>, pattern.elems, 1)
      [] OTHER -> [env |-> env, log |-> <<>>]

\* the loop binding the parameters of a function to its argument types
RECURSIVE stack_args(_, _, _, _, _, _)
stack_args(env, log, types, args, span, i) ==
    IF i > Len(args) \/ i > Len(types) THEN [env |-> env, log |-> log]
    ELSE With(stack_var(env, args[i], span, types[i]), LAMBDA v :
             stack_args(v.env, Append(log, Renamed("arg", span, args[i], Some(v.new_id))),
                        types, args, span, i + 1))

NoMatchingType(symbol, expected, possible_types) ==
    [tag |-> "NoMatchingType", symbol |-> symbol, expected |-> expected,
     possible_types |-> possible_types]

RenameOk(new_id) == [tag |-> "Ok", new_id |-> new_id]
RenameErr(err) == [tag |-> "Err", err |-> err]
\* not a value of the code: the equivalence check did not return
RenameDiverged == [tag |-> "Diverged"]

Reverse(q) == [i \in DOMAIN q |-> q[Len(q) + 1 - i]]

\* the candidates of rename: bindings.iter().rev()
candidates(values, id) == Reverse(get_all(values, id))

\* a rename that takes the most recent candidate whatever its type
rename_unchecked(values, id, expected) ==
    With(candidates(values, id), LAMBDA cands :
        IF cands = <<>> THEN RenameOk(None)
        ELSE RenameOk(Some(cands[1].new_id)))

\* RenameVisitor::rename
rename(values, id, expected) ==
    With(candidates(values, id), LAMBDA cands :
        IF Len(cands) <= 1
        THEN RenameOk(IF cands = <<>> THEN None ELSE Some(cands[1].new_id))
        ELSE With([i \in DOMAIN cands |->
                     equivalent(remove_forall(cands[i].typ),
                                remove_forall(expected))],
                  LAMBDA eq :
             With({i \in DOMAIN cands : eq[i].diverged \/ eq[i].equiv},
                  LAMBDA stops :
                  IF stops = {}
                  THEN RenameErr(NoMatchingType(id, expected,
                           [i \in DOMAIN cands |->
                              <<Some(cands[i].span), cands[i].typ>>]))
                  ELSE IF eq[Min(stops)].diverged THEN RenameDiverged
                  ELSE RenameOk(Some(cands[Min(stops)].new_id)))))

----------------------------------------------------------------------------
(* KindSpec: one KindCheck object and the operations applied to it.        *)

NoCall == [op |-> "none"]
NoResult == [tag |-> "NoResult"]
Returned(r) == [ok |-> r.ok, kind |-> r.kind, err |-> r.err]

LocalNames == {"a"}
LocalKinds == {KType, KRow}
FindNames == {"a", "b", "Foo", "Bar"}
ConcreteKinds == {KType, KRow, function1_kind}
VariableLists == {<<>>, <<Generic("a", function1_kind)>>}

\* the kinds handed to unify: concrete kinds and the store's own variables
KindOperands(s) ==
    ConcreteKinds
      \cup {KVariable(i) : i \in 0..(Len(s) - 1)}
      \cup {KFunction(KVariable(i), KType) : i \in {0} \cap 0..(Len(s) - 1)}

\* arguments of kind Type, and arguments of another kind
TypeKinded ==
    {TBuiltin("Int"), TBuiltin("String"), TIdent("Foo"),
     TApp(TBuiltin("Array"), <<TBuiltin("Int")>>), TRecord(TEmptyRow)}
NotTypeKinded ==
    {TBuiltin("Array"), TBuiltin("Function"), TEmptyRow, TIdent("List")}

ArrayApps ==
    {TApp(TBuiltin("Array"), <<>>)}
      \cup {TApp(TBuiltin("Array"), <<x>>) : x \in TypeKinded \cup NotTypeKinded}
      \cup {TApp(TBuiltin("Array"), <<x, y>>) :
              x \in {TBuiltin("Int"), TBuiltin("Array")},
              y \in {TBuiltin("Int"), TEmptyRow}}
      \cup {TApp(TBuiltin("Array"), <<TBuiltin("Int"), TBuiltin("Int"), TBuiltin("Int")>>)}

ForallBodies ==
    {TGeneric("a"), TGeneric("b"), TSkolem("a"), TIdent("Bar"),
     TApp(TBuiltin("Array"), <<TGeneric("a")>>),
     TApp(TBuiltin("Array"), <<TGeneric("b")>>),
     TForall(<<"a">>, TGeneric("a")),
     TForall(<<"b">>, TGeneric("c"))}

TypeInputs ==
    {TBuiltin("Int"), TBuiltin("Array"), THole, TVariable(KHole),
     TGeneric("a"), TGeneric("b"), TSkolem("a"),
     TIdent("Foo"), TIdent("Bar"), TIdent("List"), TAlias("Foo"), TEmptyRow,
     TRecord(TEmptyRow),
     TRecord(TExtendRow(<<Field("x", TGeneric("a")), Field("y", TGeneric("b"))>>,
                        TEmptyRow)),
     TRecord(TBuiltin("Int")),
     TVariant(<<Field("A", TBuiltin("Int")), Field("B", TGeneric("a"))>>),
     TVariant(<<Field("A", TEmptyRow)>>),
     TApp(TIdent("List"), <<TGeneric("a")>>),
     TApp(TGeneric("a"), <<TGeneric("a")>>)}
      \cup ArrayApps
      \cup {TForall(<<"a">>, b) : b \in ForallBodies}
      \cup {TForall(<<"a", "b">>, TGeneric("b")), TForall(<<"a", "a">>, TGeneric("a"))}

ExpectedInputs ==
    {TBuiltin("Array"), TEmptyRow, TGeneric("a"), TIdent("List"),
     TExtendRow(<<Field("x", TGeneric("a"))>>, TGeneric("r")), TForall(<<"a">>, TGeneric("a"))}

KC == [variables |-> variables, locals |-> locals, subs |-> subs]

Hung == result # NoResult /\ result.err = Diverged

WithinBounds(kc) == Len(kc.subs) <= MaxVars /\ Len(kc.locals) <= MaxLocals

Install(kc) ==
    /\ WithinBounds(kc)
    /\ variables' = kc.variables
    /\ locals' = kc.locals
    /\ subs' = kc.subs
    /\ UNCHANGED rvars

\* KindCheck::new
KindCheck_new ==
    /\ variables = <<>>
    /\ locals = <<>>
    /\ subs = <<>>
    /\ typ = None
    /\ result = NoResult
    /\ call = NoCall
    /\ ncalls = 0

\* no rename pass is under way
NoOutcome == [tag |-> "NoOutcome"]
NoStep == [task |-> [op |-> "none"], lookup |-> None]
NoRename ==
    /\ expr = None
    /\ agenda = <<>>
    /\ stack = ScopedMap_new
    /\ stack_types = ScopedMap_new
    /\ errors = <<>>
    /\ renamed = <<>>
    /\ step = NoStep
    /\ outcome = NoOutcome

KInit == KindCheck_new /\ NoRename

\* KindCheck::add_local (the owner sets the object up before it checks)
AddLocal ==
    \E name \in LocalNames, kind \in LocalKinds :
        /\ ~Hung /\ ncalls = 0
        /\ Install([KC EXCEPT !.locals = Append(@, Local(name, kind))])
        /\ call' = [op |-> "add_local", name |-> name, kind |-> kind]
        /\ result' = NoResult
        /\ UNCHANGED <<typ, ncalls>>

\* KindCheck::set_variables
SetVariables ==
    \E vs \in VariableLists :
        /\ ~Hung /\ ncalls = 0
        /\ vs # variables
        /\ Install([KC EXCEPT !.variables = vs])
        /\ call' = [op |-> "set_variables", variables |-> vs]
        /\ result' = NoResult
        /\ UNCHANGED <<typ, ncalls>>

\* self.subs.new_var() by the owner of the checker
NewVar ==
    /\ ~Hung /\ Len(subs) < MaxUnifyVars
    /\ Install([KC EXCEPT !.subs = new_var(subs).subs])
    /\ call' = [op |-> "new_var"]
    /\ result' = [ok |-> TRUE, kind |-> new_var(subs).kind, err |-> None]
    /\ UNCHANGED <<typ, ncalls>>

\* KindCheck::unify
Unify ==
    \E expected \in KindOperands(subs), actual \in KindOperands(subs) :
    \E u \in {unify(KC, expected, actual)} :
        /\ ~Hung
        /\ Install(u.kc)
        /\ call' = [op |-> "unify", expected |-> expected, actual |-> actual,
                    before |-> KC]
        /\ result' = Returned(u)
        /\ UNCHANGED <<typ, ncalls>>

\* KindCheck::find
Find ==
    /\ ~Hung /\ ncalls < MaxFinds
    /\ \E id \in FindNames : \E f \in {find(KC, id)} :
        /\ Install(f.kc)
        /\ call' = [op |-> "find", id |-> id, before |-> KC]
        /\ result' = Returned(f)
        /\ ncalls' = ncalls + 1
        /\ UNCHANGED typ

\* KindCheck::kindcheck_type
KindcheckType ==
    /\ ~Hung /\ ncalls < MaxCalls
    /\ \E t \in TypeInputs : \E r \in {kindcheck_type(KC, t)} :
        /\ Install(r.kc)
        /\ call' = [op |-> "kindcheck_type", typ |-> t, before |-> KC]
        /\ result' = Returned(r)
        /\ typ' = r.typ
        /\ ncalls' = ncalls + 1

\* KindCheck::kindcheck_expected
KindcheckExpected ==
    /\ ~Hung /\ ncalls < MaxCalls
    /\ \E t \in ExpectedInputs, expected \in {KRow, function1_kind} :
       \E r \in {kindcheck_expected(KC, t, expected)} :
        /\ Install(r.kc)
        /\ call' = [op |-> "kindcheck_expected", typ |-> t, expected |-> expected,
                    before |-> KC]
        /\ result' = Returned(r)
        /\ typ' = r.typ
        /\ ncalls' = ncalls + 1

\* KindCheck::finalize_type, on the expression checked last
FinalizeType ==
    /\ ~Hung
    /\ typ # None
    /\ call.op # "finalize_type"
    /\ \E t1 \in {finalize_type(subs, typ)} :
        /\ call' = [op |-> "finalize_type"]
        /\ result' = IF \E a \in KindsOn(t1) : HasDiverge(a)
                     THEN [ok |-> FALSE, kind |-> None, err |-> Diverged]
                     ELSE NoResult
        /\ typ' = t1
    /\ UNCHANGED <<variables, locals, subs, ncalls>>
    /\ UNCHANGED rvars

KNext ==
    \/ AddLocal
    \/ SetVariables
    \/ Find
    \/ KindcheckType
    \/ KindcheckExpected
    \/ FinalizeType

KindSpec == KInit /\ [][KNext]_vars

\* the substitution store alone, under the unifications of its owner
UNext ==
    \/ NewVar
    \/ Unify

UnifySpec == KInit /\ [][UNext]_vars

----------------------------------------------------------------------------
(* Expressions (base::ast::Expr), each with its span.                      *)

TypedIdent(name, t) == [name |-> name, typ |-> t]
ExprField(name, value) == [name |-> name, value |-> value]
Alternative(pattern, e) == [pattern |-> pattern, expr |-> e]
ValueBinding(name, args, resolved_type, e) ==
    [name |-> name, args |-> args, resolved_type |-> resolved_type, expr |-> e]
TypeBinding(name, finalized_alias) ==
    [name |-> name, finalized_alias |-> finalized_alias]
SpannedIdent(span, name, t) == [span |-> span, name |-> name, typ |-> t]

EIdent(span, name, t) == [tag |-> "Ident", span |-> span, name |-> name, typ |-> t]
ELiteral(span) == [tag |-> "Literal", span |-> span]
EApp(span, func, args) == [tag |-> "App", span |-> span, func |-> func, args |-> args]
ERecord(span, t, exprs, base) ==
    [tag |-> "Record", span |-> span, typ |-> t, exprs |-> exprs, base |-> base]
EInfix(span, lhs, op, rhs) ==
    [tag |-> "Infix", span |-> span, lhs |-> lhs, op |-> op, rhs |-> rhs]
EMatch(span, e, alts) == [tag |-> "Match", span |-> span, expr |-> e, alts |-> alts]
ELetBindings(span, bindings, body) ==
    [tag |-> "LetBindings", span |-> span, bindings |-> bindings, body |-> body]
ELambda(span, t, args, body) ==
    [tag |-> "Lambda", span |-> span, typ |-> t, args |-> args, body |-> body]
ETypeBindings(span, bindings, body) ==
    [tag |-> "TypeBindings", span |-> span, bindings |-> bindings, body |-> body]
EDo(span, id, bound, body, flat_map_id) ==
    [tag |-> "Do", span |-> span, id |-> id, bound |-> bound, body |-> body,
     flat_map_id |-> flat_map_id]

Range(q) == {q[i] : i \in DOMAIN q}

RECURSIVE Concat(_)
Concat(qs) == IF qs = <<>> THEN <<>> ELSE Head(qs) \o Concat(Tail(qs))

\* the expressions directly inside an expression
Children(e) ==
    CASE e.tag = "App" -> <<e.func>> \o e.args
      [] e.tag = "Record" ->
            Concat([i \in DOMAIN e.exprs |->
                      IF e.exprs[i].value = None THEN <<>>
                      ELSE <<e.exprs[i].value.v>>])
              \o (IF e.base = None THEN <<>> ELSE <<e.base.v>>)
      [] e.tag = "Infix" -> <<e.lhs, e.rhs>>
      [] e.tag = "Match" -> <<e.expr>> \o [i \in DOMAIN e.alts |-> e.alts[i].expr]
      [] e.tag = "LetBindings" ->
            [i \in DOMAIN e.bindings |-> e.bindings[i].expr] \o <<e.body>>
      [] e.tag \in {"Lambda", "TypeBindings"} -> <<e.body>>
      [] e.tag = "Do" -> <<e.bound, e.body>>
      [] OTHER -> <<>>

\* every expression of a tree
RECURSIVE Nodes(_)
Nodes(e) == {e} \cup UNION {Nodes(c) : c \in Range(Children(e))}

\* resolve::remove_aliases : a named type stands for its visible alias
remove_aliases(aliases, t) ==
    IF t.tag \in {"Ident", "Alias"}
    THEN With(get_all(aliases, IF t.tag = "Ident" THEN t.id ELSE t.name),
              LAMBDA found : IF found = <<>> THEN t ELSE Last(found).typ)
    ELSE t

\* Type::row_iter : the fields of a record or of a row
RECURSIVE row_iter(_)
row_iter(t) ==
    CASE t.tag = "Record" -> row_iter(t.row)
      [] t.tag = "ExtendRow" -> t.fields \o row_iter(t.rest)
      [] OTHER -> <<>>

\* RenameVisitor::find_fields
find_fields(aliases, t) == row_iter(remove_aliases(aliases, remove_forall(t)))

----------------------------------------------------------------------------
(* RenameSpec: one call of rename(symbols, env, expr).  rename_expr runs   *)
(* up to its next nested visit_expr in one step; what it does after that   *)
(* visit has returned waits on the agenda behind it.                       *)

Visit(e) == [op |-> "visit", e |-> e]
RecordFields(e, field_types, i) ==
    [op |-> "record_field", e |-> e, field_types |-> field_types, i |-> i]
EnterAlternative(e, i) == [op |-> "alternative", e |-> e, i |-> i]
LetPattern(e, i) == [op |-> "let_pattern", e |-> e, i |-> i]
LetFunction(e, i) == [op |-> "let_function", e |-> e, i |-> i]
DoBind(e) == [op |-> "do_bind", e |-> e]
ExitScopes(e, maps) == [op |-> "exit_scope", e |-> e, maps |-> maps]

Spanned(span, value) == [span |-> span, value |-> value]

Diverged_pass == [tag |-> "Diverged"]
Returned_Ok == [tag |-> "Ok"]
Returned_Err(errs) == [tag |-> "Err", errors |-> errs]

ENV == [stack |-> stack, stack_types |-> stack_types]

Running == outcome = NoOutcome /\ expr # None
Ready(op) == Running /\ agenda # <<>> /\ Head(agenda).op = op
Visiting(tags) == Ready("visit") /\ Head(agenda).e.tag \in tags

\* a step that looks nothing up: it leaves work, an environment, names
Plain(agenda1, env1, renamed1) ==
    /\ agenda' = agenda1
    /\ stack' = env1.stack
    /\ stack_types' = env1.stack_types
    /\ renamed' = renamed1
    /\ step' = [task |-> Head(agenda), lookup |-> None]
    /\ UNCHANGED <<expr, errors, outcome>>
    /\ UNCHANGED kvars

\* self.rename(id, typ)? inside rename_expr(e): on Ok the new name is
\* written and rename_expr goes on with next; on Err rename_expr returns
\* and visit_expr pushes the error with e's span
Disambiguate(site, e, id, t, next) ==
    \E r \in {rename(stack, id, t)} :
        /\ step' = [task |-> Head(agenda),
                    lookup |-> Some([id |-> id, expected |-> t, result |-> r])]
        /\ CASE r.tag = "Ok" ->
                  /\ agenda' = next \o Tail(agenda)
                  /\ renamed' = Append(renamed, Renamed(site, e.span, id, r.new_id))
                  /\ UNCHANGED <<errors, outcome>>
             [] r.tag = "Err" ->
                  /\ agenda' = Tail(agenda)
                  /\ errors' = Append(errors, Spanned(e.span, r.err))
                  /\ UNCHANGED <<renamed, outcome>>
             [] r.tag = "Diverged" ->
                  /\ outcome' = Diverged_pass
                  /\ UNCHANGED <<agenda, errors, renamed>>
        /\ UNCHANGED <<expr, stack, stack_types>>
        /\ UNCHANGED kvars

\* Expr::Ident
VisitIdent ==
    /\ Visiting({"Ident"})
    /\ \E e \in {Head(agenda).e} : Disambiguate("ident", e, e.name, e.typ, <<>>)

\* Expr::Record : find_fields, then the loop over the zipped fields
VisitRecord ==
    /\ Visiting({"Record"})
    /\ \E e \in {Head(agenda).e} :
         Plain(<<RecordFields(e, find_fields(stack_types, e.typ), 1)>> \o Tail(agenda),
               ENV, renamed)

\* one turn of the loop of Expr::Record, and the base expression after it
RecordField ==
    /\ Ready("record_field")
    /\ \E t \in {Head(agenda)} :
         IF t.i > Len(t.field_types) \/ t.i > Len(t.e.exprs)
         THEN Plain((IF t.e.base = None THEN <<>> ELSE <<Visit(t.e.base.v)>>)
                      \o Tail(agenda), ENV, renamed)
         ELSE IF t.e.exprs[t.i].value # None
         THEN Plain(<<Visit(t.e.exprs[t.i].value.v),
                      RecordFields(t.e, t.field_types, t.i + 1)>> \o Tail(agenda),
                    ENV, renamed)
         ELSE Disambiguate("field", t.e, t.e.exprs[t.i].name, t.field_types[t.i].typ,
                           <<RecordFields(t.e, t.field_types, t.i + 1)>>)

\* Expr::Infix
VisitInfix ==
    /\ Visiting({"Infix"})
    /\ \E e \in {Head(agenda).e} :
         Disambiguate("op", e, e.op.name, e.op.typ, <<Visit(e.lhs), Visit(e.rhs)>>)

\* Expr::Match
VisitMatch ==
    /\ Visiting({"Match"})
    /\ \E e \in {Head(agenda).e} :
         Plain(<<Visit(e.expr)>>
                 \o Concat([i \in DOMAIN e.alts |->
                              <<EnterAlternative(e, i), Visit(e.alts[i].expr),
                                ExitScopes(e, {"stack", "stack_types"})>>])
                 \o Tail(agenda),
               ENV, renamed)

\* an alternative of Expr::Match: both scopes are entered, the pattern bound
MatchAlternative ==
    /\ Ready("alternative")
    /\ \E t \in {Head(agenda)} :
       \E r \in {new_pattern([stack |-> enter_scope(stack),
                              stack_types |-> enter_scope(stack_types)],
                             t.e.alts[t.i].pattern)} :
         Plain(Tail(agenda), r.env, renamed \o r.log)

is_recursive(bindings) == \A i \in DOMAIN bindings : bindings[i].args # <<>>

\* Expr::LetBindings, up to the first body it visits
VisitLetBindings ==
    /\ Visiting({"LetBindings"})
    /\ \E e \in {Head(agenda).e} :
       \E env1 \in {[stack |-> enter_scope(stack),
                     stack_types |-> enter_scope(stack_types)]} :
         IF ~is_recursive(e.bindings)
         THEN Plain(Concat([i \in DOMAIN e.bindings |->
                              <<Visit(e.bindings[i].expr), LetPattern(e, i)>>])
                      \o <<Visit(e.body), ExitScopes(e, {"stack", "stack_types"})>>
                      \o Tail(agenda),
                    env1, renamed)
         ELSE \E r \in {new_patterns(env1, <<>>,
                                     [i \in DOMAIN e.bindings |-> e.bindings[i].name],
                                     1)} :
                Plain(Concat([i \in DOMAIN e.bindings |->
                                <<LetFunction(e, i), Visit(e.bindings[i].expr),
                                  ExitScopes(e, {"stack"})>>])
                        \o <<Visit(e.body), ExitScopes(e, {"stack", "stack_types"})>>
                        \o Tail(agenda),
                      r.env, renamed \o r.log)

\* self.new_pattern(&mut bind.name) of a group that is not recursive
LetNewPattern ==
    /\ Ready("let_pattern")
    /\ \E t \in {Head(agenda)} :
       \E r \in {new_pattern(ENV, t.e.bindings[t.i].name)} :
         Plain(Tail(agenda), r.env, renamed \o r.log)

\* a binding of a recursive group: its scope, its parameters (their span
\* is expr.span, the span of the body of the let)
LetEnterFunction ==
    /\ Ready("let_function")
    /\ \E t \in {Head(agenda)} :
       \E binding \in {t.e.bindings[t.i]} :
       \E r \in {stack_args([ENV EXCEPT !.stack = enter_scope(@)], <<>>,
                            arg_iter(remove_forall(binding.resolved_type)),
                            binding.args, t.e.body.span, 1)} :
         Plain(Tail(agenda), r.env, renamed \o r.log)

\* a lambda whose scope is entered and never left
VisitLambda_unclosed ==
    /\ Visiting({"Lambda"})
    /\ \E e \in {Head(agenda).e} :
       \E r \in {stack_args([ENV EXCEPT !.stack = enter_scope(@)], <<>>,
                            arg_iter(e.typ), e.args, e.span, 1)} :
         Plain(<<Visit(e.body)>> \o Tail(agenda), r.env, renamed \o r.log)

\* Expr::Lambda
VisitLambda ==
    /\ Visiting({"Lambda"})
    /\ \E e \in {Head(agenda).e} :
       \E r \in {stack_args([ENV EXCEPT !.stack = enter_scope(@)], <<>>,
                            arg_iter(e.typ), e.args, e.span, 1)} :
         Plain(<<Visit(e.body), ExitScopes(e, {"stack"})>> \o Tail(agenda),
               r.env, renamed \o r.log)

\* the loop of Expr::TypeBindings over its bindings
RECURSIVE stack_type_bindings(_, _, _, _)
stack_type_bindings(env, bindings, span, i) ==
    IF i > Len(bindings) THEN env
    ELSE With(stack_type(env, bindings[i].name, span, bindings[i].finalized_alias),
              LAMBDA env1 : stack_type_bindings(env1, bindings, span, i + 1))

\* Expr::TypeBindings : only the scope of stack_types is entered
VisitTypeBindings ==
    /\ Visiting({"TypeBindings"})
    /\ \E e \in {Head(agenda).e} :
       \E env1 \in {stack_type_bindings([ENV EXCEPT !.stack_types = enter_scope(@)],
                                        e.bindings, e.span, 1)} :
         Plain(<<Visit(e.body), ExitScopes(e, {"stack_types"})>> \o Tail(agenda),
               env1, renamed)

\* Expr::Do
VisitDo ==
    /\ Visiting({"Do"})
    /\ \E e \in {Head(agenda).e} :
         Disambiguate("flat_map", e, e.flat_map_id.name, e.flat_map_id.typ,
                      <<Visit(e.bound), DoBind(e), Visit(e.body),
                        ExitScopes(e, {"stack"})>>)

\* Expr::Do after the bound expression: the scope of the bound name
DoEnterScope ==
    /\ Ready("do_bind")
    /\ \E e \in {Head(agenda).e} :
       \E r \in {stack_var([ENV EXCEPT !.stack = enter_scope(@)],
                           e.id.name, e.id.span, e.id.typ)} :
         Plain(Tail(agenda), r.env,
               Append(renamed, Renamed("do", e.id.span, e.id.name, Some(r.new_id))))

\* ast::walk_mut_expr for the other expressions: their children in order
WalkExpr ==
    /\ Visiting({"Literal", "App"})
    /\ \E e \in {Head(agenda).e} :
         Plain([i \in DOMAIN Children(e) |-> Visit(Children(e)[i])] \o Tail(agenda),
               ENV, renamed)

\* self.env.stack.exit_scope() and self.env.stack_types.exit_scope()
ExitScope ==
    /\ Ready("exit_scope")
    /\ \E t \in {Head(agenda)} :
         Plain(Tail(agenda),
               [stack |-> IF "stack" \in t.maps THEN exit_scope(stack) ELSE stack,
                stack_types |-> IF "stack_types" \in t.maps
                                THEN exit_scope(stack_types) ELSE stack_types],
               renamed)

\* rename : the first visit_expr has returned
Return ==
    /\ Running
    /\ agenda = <<>>
    /\ outcome' = IF errors # <<>> THEN Returned_Err(errors) ELSE Returned_Ok
    /\ step' = [task |-> [op |-> "return"], lookup |-> None]
    /\ UNCHANGED <<expr, agenda, stack, stack_types, errors, renamed>>
    /\ UNCHANGED kvars

----------------------------------------------------------------------------
(* The expressions RenameSpec is run on.  A span is the pair of offsets of *)
(* the expression's text; the texts are given with each family.            *)

TInt == TBuiltin("Int")
TFloat == TBuiltin("Float")
TString == TBuiltin("String")
\* forall a . a -> a
Identity == TForall(<<"a">>, TFunction(TGeneric("a"), TGeneric("a")))

\* the declared types of the nested lets, the inferred types of occurrences
LetTypes == {TInt, TFloat, Identity}
OccTypes == {TInt, TFloat, TString, TFunction(TInt, TInt)}

\* `let x = 0 in` nested ts times, the i-th let at offset 10 * i, around body
RECURSIVE NestedLet(_, _, _)
NestedLet(ts, i, body) ==
    IF i > Len(ts) THEN body
    ELSE ELetBindings(Span(10 * i, 99),
             <<ValueBinding(PIdent(Span(10 * i + 4, 10 * i + 5), "x", ts[i]), <<>>,
                            ts[i], ELiteral(Span(10 * i + 8, 10 * i + 9)))>>,
             NestedLet(ts, i + 1, body))

\* { x, y = x .. x } of type { x : t1, y : t2 }, at offset 50
RecordOfX(t1, t2) ==
    ERecord(Span(50, 70),
            TRecord(TExtendRow(<<Field("x", t1), Field("y", t2)>>, TEmptyRow)),
            <<ExprField("x", None),
              ExprField("y", Some(EIdent(Span(58, 59), "x", t2)))>>,
            Some(EIdent(Span(64, 65), "x", t2)))

\* the expressions inside the nested lets, all at offset 50:
\*   x      x `x` x      x x      { x, y = x .. x }      do y = x; y
Bodies ==
    {EIdent(Span(50, 51), "x", t) : t \in OccTypes}
      \cup {EInfix(Span(50, 59), EIdent(Span(50, 51), "x", t2),
                   TypedIdent("x", t1), EIdent(Span(58, 59), "x", t2)) :
              t1 \in {TInt, TString}, t2 \in {TInt, TString}}
      \cup {EApp(Span(50, 53), EIdent(Span(50, 51), "x", t1),
                 <<EIdent(Span(52, 53), "x", t2)>>) :
              t1 \in {TFunction(TInt, TInt)}, t2 \in {TInt, TString}}
      \cup {RecordOfX(t1, t2) : t1 \in {TInt, TString}, t2 \in {TInt, TString}}
      \cup {EDo(Span(50, 70), SpannedIdent(Span(53, 54), "y", TInt),
                EIdent(Span(57, 58), "x", t2), EIdent(Span(60, 61), "y", TInt),
                TypedIdent("x", t1)) :
              t1 \in {TInt, TString}, t2 \in {TInt, TString}}

LetTypeSeqs == UNION {[1..n -> LetTypes] : n \in 0..MaxNest}

NestedLets == {NestedLet(ts, 1, body) : ts \in LetTypeSeqs, body \in Bodies}

\* the bindings of a let group: f (at offset 4) and g (at offset 24), each
\* a function of x or a plain value, each with a name as its body
GroupBinding(name, at, args, uses) ==
    ValueBinding(PIdent(Span(at, at + 1), name, IF args = <<>> THEN TInt
                                                 ELSE TFunction(TInt, TInt)),
                 args,
                 IF args = <<>> THEN TInt ELSE TFunction(TInt, TInt),
                 EIdent(Span(at + 8, at + 9), uses, TInt))

GroupArgs == {<<>>, <<"x">>}
GroupUses == {"x", "f", "g"}

\* let f [x] = _ [and g [x] = _] in f, the body at offset 40
LetGroups ==
    {ELetBindings(Span(0, 41), <<GroupBinding("f", 4, a1, u1)>>,
                  EIdent(Span(40, 41), "f", TInt)) :
        a1 \in GroupArgs, u1 \in GroupUses}
      \cup {ELetBindings(Span(0, 41),
                         <<GroupBinding("f", 4, a1, u1), GroupBinding("g", 24, a2, u2)>>,
                         EIdent(Span(40, 41), "f", TInt)) :
              a1 \in GroupArgs, u1 \in GroupUses, a2 \in GroupArgs, u2 \in GroupUses}

\* type T = | A TInt | B in A, at offset at; the alias is known as M.T
VariantOfAB == TVariant(<<Field("A", TFunction(TInt, TIdent("T"))), Field("B", TIdent("T"))>>)
RecordOfXY == TRecord(TExtendRow(<<Field("x", TInt), Field("y", TInt)>>, TEmptyRow))
AliasedTypes == {VariantOfAB, TForall(<<"a">>, VariantOfAB), RecordOfXY}

TypeOfT(at, aliased, uses) ==
    ETypeBindings(Span(at, at + 30), <<TypeBinding("T", Alias("M.T", aliased))>>,
                  EIdent(Span(at + 25, at + 26), uses, TIdent("T")))

\* a type-binding group alone, as the value of a let whose body names a
\* constructor, and under a let that binds the constructor's name itself
TypeGroups ==
    {TypeOfT(0, t, u) : t \in AliasedTypes, u \in {"A", "B"}}
      \cup {ELetBindings(Span(0, 60),
                <<ValueBinding(PIdent(Span(4, 5), "y", TIdent("T")), <<>>,
                               TIdent("T"), TypeOfT(8, t, u))>>,
                EIdent(Span(50, 51), "A", TIdent("T"))) :
              t \in AliasedTypes, u \in {"A", "B"}}
      \cup {NestedLet(<<TInt>>, 1,
                EApp(Span(20, 90), TypeOfT(20, t, "A"),
                     <<EIdent(Span(80, 81), "A", TInt)>>)) : t \in AliasedTypes}

\* match x with | x -> x | (x, y) -> y | 0 -> x      and      \x y -> x
MatchOfX(t) ==
    EMatch(Span(50, 90), EIdent(Span(56, 57), "x", t),
           <<Alternative(PIdent(Span(60, 61), "x", TFloat), EIdent(Span(65, 66), "x", t)),
             Alternative(PTuple(Span(70, 75),
                                <<PIdent(Span(71, 72), "x", TInt),
                                  PIdent(Span(73, 74), "y", TInt)>>),
                         EIdent(Span(78, 79), "y", TInt)),
             Alternative(PLiteral(Span(80, 81)), EIdent(Span(85, 86), "x", t))>>)

LambdaOfX(t) ==
    ELambda(Span(50, 60), TFunction(TFloat, TFunction(TInt, TInt)), <<"x", "y">>,
            EIdent(Span(58, 59), "x", t))

Scoped ==
    {NestedLet(ts, 1, body) :
        ts \in {<<>>, <<TInt>>, <<TInt, TFloat>>},
        body \in {MatchOfX(t) : t \in {TInt, TFloat}}
                   \cup {LambdaOfX(t) : t \in {TInt, TFloat, TString}}}

\* records whose fields are not those of their type, one by one and in
\* order, under let x: Int in let x: Float in
\*   { x } : { y: Float, x: Int }      { x = x, y = x .. x } : { x: Int }
RecordOf(fields) == TRecord(TExtendRow(fields, TEmptyRow))
UnlikeRecords ==
    {ERecord(Span(50, 70), RecordOf(<<Field("y", TFloat), Field("x", TInt)>>),
             <<ExprField("x", None)>>, base) :
        base \in {None, Some(EIdent(Span(64, 65), "x", TInt))}}
      \cup {ERecord(Span(50, 70), RecordOf(<<Field("x", TInt)>>),
                    <<ExprField("x", Some(EIdent(Span(54, 55), "x", TInt))),
                      ExprField("y", Some(EIdent(Span(58, 59), "x", t)))>>,
                    Some(EIdent(Span(64, 65), "x", TInt))) :
              t \in {TInt, TFloat}}
Records == {NestedLet(<<TInt, TFloat>>, 1, body) : body \in UnlikeRecords}

Programs == NestedLets \cup LetGroups \cup TypeGroups \cup Scoped \cup Records

\* rename(symbols, env, expr) : a fresh visitor, about to visit expr
RInit ==
    /\ KindCheck_new
    /\ expr \in Programs
    /\ agenda = <<Visit(expr)>>
    /\ stack = ScopedMap_new
    /\ stack_types = ScopedMap_new
    /\ errors = <<>>
    /\ renamed = <<>>
    /\ step = NoStep
    /\ outcome = NoOutcome

RNext ==
    \/ VisitIdent
    \/ VisitRecord
    \/ RecordField
    \/ VisitInfix
    \/ VisitMatch
    \/ MatchAlternative
    \/ VisitLetBindings
    \/ LetNewPattern
    \/ LetEnterFunction
    \/ VisitLambda
    \/ VisitTypeBindings
    \/ VisitDo
    \/ DoEnterScope
    \/ WalkExpr
    \/ ExitScope
    \/ Return

RenameSpec == RInit /\ [][RNext]_vars

----------------------------------------------------------------------------
(* EquivSpec: equivalent applied to a pair of types.  The pair is drawn    *)
(* by the initial state and held in call; result holds what the call       *)
(* returned, or Diverged when the recursion through the scratch map does   *)
(* not return.                                                             *)

\* the longest chain of function arrows in the types compared
MaxArity == 3

EqAtoms == {TInt, TGeneric("a"), TGeneric("b"), TSkolem("s")}

\* x1 -> .. -> xn of atoms, n <= MaxArity
RECURSIVE FunctionTypes(_)
FunctionTypes(n) ==
    IF n <= 1 THEN EqAtoms
    ELSE With(FunctionTypes(n - 1), LAMBDA shorter :
             shorter \cup {TFunction(x, t) : x \in EqAtoms, t \in shorter})

EqTypes == FunctionTypes(MaxArity)

\* what a call of equivalent gave back
EquivReturned(st) ==
    IF st.diverged
    THEN [ok |-> FALSE, kind |-> None, err |-> Diverged, equiv |-> None]
    ELSE [ok |-> TRUE, kind |-> None, err |-> None, equiv |-> Some(st.equiv)]

EInit ==
    /\ variables = <<>>
    /\ locals = <<>>
    /\ subs = <<>>
    /\ typ = None
    /\ ncalls = 0
    /\ result = NoResult
    /\ \E actual \in EqTypes, inferred \in EqTypes :
           call = [op |-> "equivalent", actual |-> actual, inferred |-> inferred]
    /\ NoRename

\* equivalent(env, actual, inferred)
CallEquivalent ==
    /\ call.op = "equivalent"
    /\ result = NoResult
    /\ \E st \in {equivalent(call.actual, call.inferred)} :
           result' = EquivReturned(st)
    /\ UNCHANGED <<variables, locals, subs, typ, call, ncalls>>
    /\ UNCHANGED rvars

ENext ==
    \/ CallEquivalent

EquivSpec == EInit /\ [][ENext]_vars

----------------------------------------------------------------------------
(* Properties of the kind checker.                                         *)

\* the entry of a locals stack pushed last for a name
last_local(ls, id) ==
    With({i \in DOMAIN ls : ls[i].name = id}, LAMBDA hits :
        IF hits = {} THEN None ELSE Some(ls[Max(hits)].kind))

\* C4: find(name) resolves through the active quantifier list, then the
\* local-binding stack, then the outer environment, and among the stack's
\* entries for a name the one pushed last wins.
C4_FindInnermostFirst ==
    call.op = "find" =>
        With(find_variable(call.before.variables, call.id), LAMBDA v :
        With(last_local(call.before.locals, call.id), LAMBDA l :
        With(info_find_kind(call.id), LAMBDA e :
            IF v # None THEN result.ok /\ result.kind = v.v
            ELSE IF l # None THEN result.ok /\ result.kind = l.v
            ELSE e # None => result.ok /\ result.kind = e.v)))

\* the kind variables the Forall rule makes for the parameters of call.typ
ParamVars == {KVariable(Len(call.before.subs) + i - 1) : i \in DOMAIN call.typ.params}

\* C5: when the Forall rule has returned, no binding pushed for one of its
\* parameters is left on the local-binding stack, every binding present
\* before it is still there, and so is the binding of a lower-case name
\* the body introduced implicitly.
C5_ForallPopsItsOwn ==
    (call.op = "kindcheck_type" /\ call.typ.tag = "Forall" /\ result.ok) =>
        /\ \A i \in DOMAIN locals : locals[i].kind \notin ParamVars
        /\ Len(locals) >= Len(call.before.locals)
        /\ SubSeq(locals, 1, Len(call.before.locals)) = call.before.locals
        /\ (/\ call.typ.body.tag = "Generic"
            /\ \A i \in DOMAIN call.typ.params :
                   call.typ.params[i].id # call.typ.body.id
            /\ find_variable(variables, call.typ.body.id) = None)
           => \E i \in DOMAIN locals : locals[i].name = call.typ.body.id

\* C6: after kindcheck_expected has succeeded, and after any finalize_type,
\* no kind stored on a node of the expression holds a kind variable.
C6_FinalizedHasNoVariable ==
    (\/ call.op \in {"kindcheck_type", "kindcheck_expected"} /\ result.ok
     \/ call.op = "finalize_type")
        => \A k \in KindsOn(typ) : ~HasVariable(k)

\* the call was unify of the unbound variable v with the concrete kind k
FreshUnified(v, k) ==
    /\ call.op = "unify"
    /\ v < Len(call.before.subs)
    /\ ~IsBound(call.before.subs, v)
    /\ \/ call.expected = KVariable(v) /\ call.actual = k
       \/ call.actual = KVariable(v) /\ call.expected = k

BoundTo(v, k) == find_type_for_var(subs, v) = Some(k)

\* C7: unifying an unbound kind variable with a concrete kind succeeds and
\* the variable then resolves to that kind; a variable that resolves to a
\* concrete kind resolves to the same kind after every further step.
C7_FreshVariableBinds ==
    [][\A v \in 0..MaxUnifyVars, k \in ConcreteKinds :
          /\ FreshUnified(v, k)' => result'.ok /\ BoundTo(v, k)'
          /\ BoundTo(v, k) => BoundTo(v, k)']_vars

\* a variable was unified fresh with Type -> Type, and a later unification
\* of it with another kind was refused, the binding kept
C7_Witness ==
    /\ call.op = "unify"
    /\ call.expected = KVariable(0)
    /\ call.actual = KRow
    /\ BoundTo(0, function1_kind)
    /\ call.before.subs = subs
    /\ ~result.ok

\* C8: kindcheck_type of the array constructor applied to one argument of
\* kind Type succeeds with kind Type; applied to no argument, to two or
\* more, or to one argument of another kind, it fails with a mismatch.
C8_ArrayApplication ==
    (call.op = "kindcheck_type" /\ call.typ \in ArrayApps) =>
        IF Len(call.typ.args) = 1 /\ call.typ.args[1] \in TypeKinded
        THEN result.ok /\ result.kind = KType
        ELSE ~result.ok /\ result.err.tag = "TypeMismatch"

\* Array Int was accepted with kind Type
C8_Witness ==
    /\ call.op = "kindcheck_type"
    /\ call.typ = TApp(TBuiltin("Array"), <<TBuiltin("Int")>>)
    /\ result.ok
    /\ result.kind = KType

\* find met the name in none of the quantifier list, the locals and the
\* outer environment
Absent(kc, id) ==
    /\ find_variable(kc.variables, id) = None
    /\ find_local(kc.locals, id) = None
    /\ info_find_kind(id) = None

\* the last call was a find of an absent lower-case name, which it answered
\* with the kind variable k
ImplicitlyBound(k) ==
    /\ call.op = "find"
    /\ Absent(call.before, call.id)
    /\ ~starts_with_uppercase(call.id)
    /\ result.ok
    /\ result.kind = k

\* C13: a find of a name bound nowhere fails with UndefinedType of that
\* name and adds no binding when the name starts with an upper-case letter;
\* otherwise it allocates a fresh kind variable, pushes it as a new local
\* binding and returns it, and a following find of the same name returns
\* that variable and allocates no other.
C13_FindOfAbsentName ==
    /\ [](call.op = "find" /\ Absent(call.before, call.id) =>
            IF starts_with_uppercase(call.id)
            THEN /\ ~result.ok
                 /\ result.err = UndefinedType(call.id)
                 /\ KC = call.before
            ELSE /\ result.ok
                 /\ result.kind = KVariable(Len(call.before.subs))
                 /\ subs = Append(call.before.subs, Unbound)
                 /\ locals = Append(call.before.locals,
                                    Local(call.id, result.kind))
                 /\ variables = call.before.variables)
    /\ [][\A k \in {KVariable(i) : i \in 0..MaxVars} :
            (ImplicitlyBound(k) /\ call'.op = "find" /\ call'.id = call.id) =>
                /\ result'.ok
                /\ result'.kind = k
                /\ subs' = subs
                /\ locals' = locals]_vars

\* two finds of the lower-case name b, bound nowhere before the first, have
\* returned the same fresh variable
C13_Witness ==
    /\ call.op = "find"
    /\ call.id = "b"
    /\ ncalls = 2
    /\ call.before.locals # <<>>
    /\ Last(call.before.locals) = Local("b", result.kind)
    /\ result.ok
    /\ locals = call.before.locals
    /\ subs = call.before.subs

----------------------------------------------------------------------------
(* Properties of the equivalence checker.                                  *)

Mismatch == <<None, None>>

\* the pairs (variable of the left type, right-hand type at its position)
\* that matching l against r position by position demands, with Mismatch
\* where the two structures differ
RECURSIVE Demands(_, _)
DemandsAll(ls, rs) == UNION {Demands(ls[i], rs[i]) : i \in DOMAIN ls}
Demands(l, r) ==
    CASE l.tag \in {"Generic", "Skolem"} -> {<<l, r>>}
      [] l.tag = "App" /\ r.tag = "App" /\ Len(l.args) = Len(r.args) ->
            Demands(l.ctor, r.ctor) \cup DemandsAll(l.args, r.args)
      [] l.tag = "Record" /\ r.tag = "Record" -> Demands(l.row, r.row)
      [] /\ l.tag \in {"Variant", "ExtendRow"} /\ r.tag = l.tag
         /\ FieldNames(l.fields) = FieldNames(r.fields) ->
            DemandsAll(FieldTypes(l.fields), FieldTypes(r.fields))
              \cup (IF l.tag = "ExtendRow" THEN Demands(l.rest, r.rest) ELSE {})
      [] OTHER -> IF l = r THEN {} ELSE {Mismatch}

\* one assignment of the left type's variables makes l match r
OneAssignment(l, r) ==
    With(Demands(l, r), LAMBDA d :
        /\ Mismatch \notin d
        /\ \A p, q \in d : p[1] = q[1] => p[2] = q[2])

IsVar(t) == t.tag \in {"Generic", "Skolem"}

\* C12: equivalent returns true only if one assignment of the left type's
\* variables makes the whole left structure match the whole right one: a
\* left type v -> v is not equivalent to a right type t -> u of two
\* different types, and is equivalent to t -> t.
C12_EquivalentIsOneAssignment ==
    (call.op = "equivalent" /\ result # NoResult /\ result.ok) =>
        /\ result.equiv = Some(TRUE) => OneAssignment(call.actual, call.inferred)
        /\ ( /\ IsFunction(call.actual) /\ IsFunction(call.inferred)
             /\ IsVar(call.actual.args[1])
             /\ call.actual.args[2] = call.actual.args[1] ) =>
               result.equiv = Some(call.inferred.args[1] = call.inferred.args[2])

\* C17: equivalent(env, actual, inferred) returns a boolean for every pair
\* of finite types, also when the scratch map comes to hold a chain or a
\* cycle of entries from variable to variable.
C17_EquivalentTerminates ==
    (call.op = "equivalent" /\ result # NoResult) =>
        /\ result.err # Diverged
        /\ result.equiv \in {Some(TRUE), Some(FALSE)}

----------------------------------------------------------------------------
(* Properties of the renamer.                                              *)

\* the candidate's declared type is equivalent to the expected type
Matches(c, expected) ==
    equivalent(remove_forall(c.typ), remove_forall(expected)).equiv

\* C1: rename(name, expected) returns the only visible binding's unique
\* name, or none, without comparing types when at most one binding of the
\* name is visible; with two or more it returns the unique name of the most
\* recently entered binding whose declared type is equivalent to expected,
\* and when none is, NoMatchingType listing every visible binding.
C1_RenamePicksFirstEquivalent ==
    step.lookup # None =>
        With(step.lookup.v, LAMBDA l :
        With(stack.map[l.id], LAMBDA v :
            IF Len(v) = 0 THEN l.result = RenameOk(None)
            ELSE IF Len(v) = 1 THEN l.result = RenameOk(Some(v[1].new_id))
            ELSE IF \E i \in DOMAIN v : Matches(v[i], l.expected)
            THEN \E i \in DOMAIN v :
                    /\ Matches(v[i], l.expected)
                    /\ \A j \in DOMAIN v : j > i => ~Matches(v[j], l.expected)
                    /\ l.result = RenameOk(Some(v[i].new_id))
            ELSE /\ l.result.tag = "Err"
                 /\ l.result.err.tag = "NoMatchingType"
                 /\ l.result.err.symbol = l.id
                 /\ l.result.err.expected = l.expected
                 /\ Len(l.result.err.possible_types) = Len(v)
                 /\ \A i \in DOMAIN v :
                        \E j \in DOMAIN v :
                            l.result.err.possible_types[j]
                                = <<Some(v[i].span), v[i].typ>>))

\* of two visible bindings the most recent one did not have the expected
\* type, and the older one was returned
C1_Witness ==
    /\ step.lookup # None
    /\ Len(stack.map[step.lookup.v.id]) = 2
    /\ ~Matches(stack.map[step.lookup.v.id][2], step.lookup.v.expected)
    /\ step.lookup.v.result = RenameOk(Some(stack.map[step.lookup.v.id][1].new_id))

\* the let expressions of the tree and the spans of the names they bind
Lets(e) == {n \in Nodes(e) : n.tag = "LetBindings"}
LetPatternSpans ==
    UNION {{n.bindings[i].name.span : i \in DOMAIN n.bindings} : n \in Lets(expr)}

\* the bindings visible for the name just looked up are those of two or
\* more lets nested around the occurrence
NestedLetBindings(v) ==
    Len(v) >= 2 /\ \A i \in DOMAIN v : v[i].span \in LetPatternSpans

\* C2 as the spec states it: let-bound identifiers of one surface name in
\* nested scopes have distinct unique names, and every occurrence of the
\* name inside the inner scope is given the inner binding's unique name.
C2_InnerBindingAlways ==
    step.lookup # None =>
        With(stack.map[step.lookup.v.id], LAMBDA v :
            NestedLetBindings(v) =>
                /\ \A i, j \in DOMAIN v : i # j => v[i].new_id # v[j].new_id
                /\ step.lookup.v.result = RenameOk(Some(Last(v).new_id)))

\* C2, amended: let-bound identifiers of one surface name in nested scopes
\* have distinct unique names, and every occurrence of the name inside the
\* inner scope whose inferred type is equivalent to the inner binding's
\* declared type is given the inner binding's unique name.
C2_InnerBindingWhenEquivalent ==
    step.lookup # None =>
        With(stack.map[step.lookup.v.id], LAMBDA v :
            NestedLetBindings(v) =>
                /\ \A i, j \in DOMAIN v : i # j => v[i].new_id # v[j].new_id
                /\ Matches(Last(v), step.lookup.v.expected) =>
                       step.lookup.v.result = RenameOk(Some(Last(v).new_id)))

\* under two nested lets of x whose types both are the occurrence's, the
\* occurrence was given the inner binding's name
C2_Witness ==
    /\ step.lookup # None
    /\ NestedLetBindings(stack.map[step.lookup.v.id])
    /\ \A i \in DOMAIN stack.map[step.lookup.v.id] :
           Matches(stack.map[step.lookup.v.id][i], step.lookup.v.expected)
    /\ step.lookup.v.result
           = RenameOk(Some(Last(stack.map[step.lookup.v.id]).new_id))

\* the occurrences rename_expr disambiguates in an expression of its own
Occurrence(site, span, name) == [site |-> site, span |-> span, name |-> name]
OwnOccurrences(e) ==
    CASE e.tag = "Ident" -> {Occurrence("ident", e.span, e.name)}
      [] e.tag = "Infix" -> {Occurrence("op", e.span, e.op.name)}
      [] e.tag = "Record" ->
            {Occurrence("field", e.span, e.exprs[i].name) :
                i \in {j \in DOMAIN e.exprs : e.exprs[j].value = None}}
      [] e.tag = "Do" -> {Occurrence("flat_map", e.span, e.flat_map_id.name)}
      [] OTHER -> {}
Occurrences(e) == UNION {OwnOccurrences(n) : n \in Nodes(e)}

\* the occurrence was disambiguated: a name was settled for it, or an
\* error pushed with its expression's span
Settled(o) ==
    \E i \in DOMAIN renamed :
        renamed[i].site = o.site /\ renamed[i].span = o.span /\ renamed[i].name = o.name
Reported(o) ==
    \E i \in DOMAIN errors :
        errors[i].span = o.span /\ errors[i].value.symbol = o.name

\* C3: the pass never aborts early: when it returns, every occurrence of
\* the tree has been disambiguated, those inside the operands or remaining
\* fields of an expression whose own disambiguation failed too, and it
\* returns Ok exactly when no error was pushed.
C3_NoEarlyAbort ==
    outcome.tag \in {"Ok", "Err"} =>
        /\ \A o \in Occurrences(expr) : Settled(o) \/ Reported(o)
        /\ outcome.tag = "Ok" <=> errors = <<>>

\* the declared types of the fields called id in the type of the record e
FieldTypesOf(e, id) ==
    With(find_fields(stack_types, e.typ), LAMBDA fs :
        {fs[i].typ : i \in {j \in DOMAIN fs : fs[j].name = id}})

\* C14: in a record construction or update every punned field is
\* disambiguated against the declared type of the field of its name in the
\* record's type, and when the loop over the fields is over it has passed
\* every field of the expression and the base expression is visited next,
\* whatever the order and the number of the expression's fields.
C14_RecordFieldsByName ==
    step.task.op = "record_field" =>
        With(step.task, LAMBDA t :
            /\ step.lookup # None =>
                   step.lookup.v.expected \in FieldTypesOf(t.e, step.lookup.v.id)
            /\ (step.lookup = None /\ (t.i > Len(t.e.exprs) \/ t.i > Len(t.field_types))) =>
                   /\ t.i > Len(t.e.exprs)
                   /\ t.e.base # None =>
                          agenda # <<>> /\ Head(agenda) = Visit(t.e.base.v))

\* the scopes of a map that a waiting step of rename_expr will open, and
\* those it will close
Opens(task, m) ==
    IF \/ task.op = "alternative"
       \/ task.op \in {"let_function", "do_bind"} /\ m = "stack"
    THEN 1 ELSE 0
Closes(task, m) == IF task.op = "exit_scope" /\ m \in task.maps THEN 1 ELSE 0

\* the scopes of a map the steps waiting in q leave open on balance
RECURSIVE Owed(_, _)
Owed(q, m) ==
    IF q = <<>> THEN 0
    ELSE Closes(Head(q), m) - Opens(Head(q), m) + Owed(Tail(q), m)

\* C15: scope entry and exit are properly nested on every path: the scopes
\* open on the value-binding stack and on the alias table are at every
\* moment those that the steps still waiting will close.  The steps waiting
\* behind a visit_expr are the same when it begins and when it returns, so
\* both depths are then the same, an error recorded inside it or not; both
\* are at their initial depth, none, when the pass returns.
C15_ScopesProperlyNested ==
    /\ Running =>
           /\ Depth(stack) = Owed(agenda, "stack")
           /\ Depth(stack_types) = Owed(agenda, "stack_types")
    /\ outcome.tag \in {"Ok", "Err"} =>
           Depth(stack) = 0 /\ Depth(stack_types) = 0

\* the last scope of a pass was left after an error had been recorded
\* inside it
C15_Witness ==
    /\ step.task.op = "exit_scope"
    /\ step.task.maps = {"stack", "stack_types"}
    /\ errors # <<>>
    /\ agenda = <<>>
    /\ Depth(stack) = 0
    /\ Depth(stack_types) = 0

\* the sites at which the pass binds a name
BindingSites == {"pattern", "arg", "do"}

\* C16: within one pass any two distinct binding sites are given distinct
\* unique names, the parameters of one name of two functions of a
\* recursive let group too.
C16_DistinctUniqueNames ==
    \A i, j \in DOMAIN renamed :
        (i # j /\ renamed[i].site \in BindingSites /\ renamed[j].site \in BindingSites) =>
            renamed[i].new_id # renamed[j].new_id

\* the pattern's name is on the value-binding stack
Registered(p) ==
    \E i \in DOMAIN stack.map[p.name] : stack.map[p.name][i].span = p.span

\* the keys inserted into a scoped map since its last scope marker
RECURSIVE LastScope(_)
LastScope(scopes) ==
    IF scopes = <<>> \/ Last(scopes) = None THEN <<>>
    ELSE Append(LastScope(Front(scopes)), Last(scopes).v)

\* the innermost scope of the stack was opened for the binding's parameters
ParametersBound(binding) ==
    /\ Depth(stack) >= 2
    /\ LastScope(stack.scopes) = binding.args

\* C9: in every let group, when the body of a binding that takes arguments
\* is about to be visited the names of all such bindings of the group are
\* registered and its own parameters are bound in a scope of their own;
\* when the body of a binding without arguments is about to be visited its
\* own name is not registered yet.
C9_LetGroupOrder ==
    Ready("visit") =>
        \A n \in Lets(expr) : \A i \in DOMAIN n.bindings :
            Head(agenda).e = n.bindings[i].expr =>
                IF n.bindings[i].args # <<>>
                THEN /\ \A j \in DOMAIN n.bindings :
                            n.bindings[j].args # <<>> => Registered(n.bindings[j].name)
                     /\ ParametersBound(n.bindings[i])
                ELSE ~Registered(n.bindings[i].name)

\* C10: when the scope of a type-binding group has been closed, none of
\* its aliases and none of the constructor bindings made for them is
\* visible any more.
C10_ConstructorsScopedWithAlias ==
    (step.task.op = "exit_scope" /\ step.task.e.tag = "TypeBindings") =>
        \A i \in DOMAIN step.task.e.bindings :
            With(step.task.e.bindings[i], LAMBDA b :
            With(remove_forall(b.finalized_alias.typ), LAMBDA aliased :
                /\ stack_types.map[b.name] = <<>>
                /\ stack_types.map[b.finalized_alias.name] = <<>>
                /\ aliased.tag = "Variant" =>
                       \A k \in DOMAIN aliased.fields :
                           \A m \in DOMAIN stack.map[aliased.fields[k].name] :
                               stack.map[aliased.fields[k].name][m].span
                                   # step.task.e.span))

====
